---- MODULE Spec2Model ----
(***************************************************************************)
(* Model of src/main.py: the banner-event pipeline of mihoyo-ics.          *)
(*                                                                         *)
(*   PostCrawler.parse_post_content   gate, title, time extraction         *)
(*   PostCrawler._get_version_start_time   cache - lookup - save           *)
(*   merge_events                     merge by identical (start, end)      *)
(*   ICSGenerator.add_event           one entry, or start and end markers  *)
(*   main                             the batch over the posts             *)
(*                                                                         *)
(* Encoding.  A datetime is a number of hours.  The text of a date is the  *)
(* pair <<day, hour>>; strptime turns it into a datetime or raises, and    *)
(* isoformat / fromisoformat go between a datetime and its pair.  A string *)
(* is a sequence of one-character strings; the delimiter of titles (the    *)
(* ideographic comma of the source) is written ",".  A post body is a      *)
(* sequence of tokens: the keyword "engine", the keyword "agent", a        *)
(* bracket pair [name(qualifier)], a direct window, a version window, or   *)
(* other text.  An Optional is a sequence: <<>> is None, <<x>> is x.  An   *)
(* exception is a field of the value an operator returns.                  *)
(***************************************************************************)
EXTENDS Integers, Sequences, FiniteSets

VARIABLES
    pc,           \* where main is
    posts,        \* main: posts, the urls get_posts returned
    results,      \* what parse_post_content returned for each post so far
    events,       \* main: events
    versionFile,  \* the file VERSION_FILE
    populated,    \* version -> the timestamp a resolve of this run saved
    last,         \* the latest parse_post_content call, as observed
    merged,       \* main: merged_events, in insertion order
    calendar,     \* ICSGenerator.calendar: the entries added
    icsFile       \* the file ICS_FILE and whether save_ics was called

vars == <<pc, posts, results, events, versionFile, populated, last, merged,
          calendar, icsFile>>

----------------------------------------------------------------------------
(* Bounds *)

MaxPosts == 2
MaxMergeEvents == 3
MaxBuildHour == 27

(* Program constants *)

SplitHours == 24
MarkerHours == 1

None == <<>>
Some(x) == <<x>>

----------------------------------------------------------------------------
(* Strings *)

Delim == ","

RECURSIVE Join(_)
\* '、'.join(segs)
Join(segs) ==
    IF segs = <<>> THEN <<>>
    ELSE IF Len(segs) = 1 THEN segs[1]
    ELSE segs[1] \o <<Delim>> \o Join(Tail(segs))

RECURSIVE SplitFrom(_, _)
\* the segments of s, cur being the characters of the segment under way
SplitFrom(s, cur) ==
    IF s = <<>> THEN <<cur>>
    ELSE IF Head(s) = Delim THEN <<cur>> \o SplitFrom(Tail(s), <<>>)
    ELSE SplitFrom(Tail(s), Append(cur, Head(s)))

\* title.split('、')
Split(s) == SplitFrom(s, <<>>)

RECURSIVE Dedup(_)
\* list(dict.fromkeys(xs)): the first occurrence of each element, in order
Dedup(xs) ==
    IF xs = <<>> THEN <<>>
    ELSE LET front == Dedup(SubSeq(xs, 1, Len(xs) - 1))
             x == xs[Len(xs)]
         IN IF \E i \in DOMAIN front : front[i] = x THEN front
            ELSE Append(front, x)

----------------------------------------------------------------------------
(* Dates *)

\* datetime.strptime(text, '%Y/%m/%d %H:%M:%S'): the regular expressions let
\* through a day 0 and an hour above 23, on which strptime raises ValueError.
Strptime(text) ==
    IF text[1] >= 1 /\ text[2] <= 23
    THEN [exc |-> FALSE, val |-> text[1] * 24 + text[2]]
    ELSE [exc |-> TRUE, val |-> 0]

\* datetime.isoformat()
Isoformat(t) == <<t \div 24, t % 24>>

\* datetime.fromisoformat(s)
Fromisoformat(s) ==
    IF s[2] <= 23
    THEN [exc |-> FALSE, val |-> s[1] * 24 + s[2]]
    ELSE [exc |-> TRUE, val |-> 0]

----------------------------------------------------------------------------
(* The version cache: VERSION_FILE and the external search *)

Versions == {"1.4", "1.5"}

EmptyDict == [v \in {} |-> <<0, 0>>]

\* _load_version_data: the mapping of the file, or {} on any exception.
\* readFails is an OSError of open() or read() on a file that is there.
LoadVersionData(file, readFails) ==
    IF readFails \/ file.state # "valid" THEN EmptyDict ELSE file.data

\* The subject of a search result carries the label of one version:
\* f'...{version}版本' in post['subject']
SubjectHas(subject, version) == subject = version

\* _fetch_version_start_time that takes the first result whatever its subject
FetchVersionStartTime_AnySubject(version, api) ==
    IF api.exc THEN None
    ELSE IF api.retcode = 0 /\ api.list # <<>>
         THEN Some(api.list[1].created_at)
         ELSE None

\* _fetch_version_start_time: api is the response of requests.get, exc an
\* exception of the request or of reading the JSON.
FetchVersionStartTime(version, api) ==
    IF api.exc THEN None
    ELSE IF api.retcode = 0 /\ api.list # <<>>
         THEN IF SubjectHas(api.list[1].subject, version)
              THEN Some(api.list[1].created_at)
              ELSE None
         ELSE None

\* _save_version_data: open(VERSION_FILE, 'w') truncates the file, json.dump
\* then writes version_data with the new entry.  "open_fail": open raises and
\* the file is as it was; "write_fail": the write raises after the
\* truncation and leaves a file json.load cannot read.  No exception leaves.
SaveVersionData(version, start_time, version_data, file, outcome) ==
    LET data == [x \in DOMAIN version_data \cup {version} |->
                    IF x = version THEN Isoformat(start_time)
                    ELSE version_data[x]]
    IN CASE outcome = "ok" -> [state |-> "valid", data |-> data]
         [] outcome = "open_fail" -> file
         [] OTHER -> [state |-> "corrupt", data |-> EmptyDict]

\* _get_version_start_time.  env: readFails, api, save (the outcomes of the
\* file read, the request and the file write, each used only if reached).
\* Returns the Optional datetime, the file afterwards, and what was done.
GetVersionStartTime(version, file, env) ==
    LET version_data == LoadVersionData(file, env.readFails)
        loaded == ~env.readFails /\ file.state = "valid"
    IN IF version \in DOMAIN version_data
       THEN LET t == Fromisoformat(version_data[version])
            IN [ret |-> IF t.exc THEN None ELSE Some(t.val), file |-> file,
                version |-> version, loaded |-> loaded,
                lookup |-> FALSE, save |-> FALSE]
       ELSE LET start_time == FetchVersionStartTime(version, env.api)
            IN IF start_time # None
               THEN [ret |-> start_time,
                     file |-> SaveVersionData(version, start_time[1],
                                              version_data, file, env.save),
                     version |-> version, loaded |-> loaded,
                     lookup |-> TRUE, save |-> TRUE]
               ELSE [ret |-> None, file |-> file,
                     version |-> version, loaded |-> loaded,
                     lookup |-> TRUE, save |-> FALSE]

----------------------------------------------------------------------------
(* PostCrawler.parse_post_content *)

Contains(description, keyword) ==
    \E i \in DOMAIN description : description[i].k = keyword

\* _is_valid_post_content that lets the agent keyword decide alone
IsValidPostContent_AgentOnly(description) ==
    IF ~Contains(description, "agent") THEN FALSE ELSE TRUE

\* _is_valid_post_content
IsValidPostContent(description) ==
    IF Contains(description, "engine") THEN FALSE
    ELSE IF ~Contains(description, "agent") THEN FALSE
    ELSE TRUE

IsBracket(tok) == tok.k = "bracket"

\* _extract_agents_title: re.findall(AGENTS_PATTERN), the labels
\* name(qualifier) without repetition, joined; None without a match.
ExtractAgentsTitle(description) ==
    LET agents_matches == SelectSeq(description, IsBracket)
        labels == [i \in DOMAIN agents_matches |->
                      <<agents_matches[i].v, "(", agents_matches[i].q, ")">>]
    IN IF agents_matches # <<>> THEN Some(Join(Dedup(labels))) ELSE None

\* re.search(pattern, description): the first token of the kind, or None
Search(kind, description) ==
    IF Contains(description, kind)
    THEN Some(description[CHOOSE i \in DOMAIN description :
                 /\ description[i].k = kind
                 /\ \A j \in 1..(i - 1) : description[j].k # kind])
    ELSE None

\* _parse_direct_time: a ValueError of strptime leaves the method
ParseDirectTime(time_match) ==
    LET start_time == Strptime(time_match.s)
        end_time == Strptime(time_match.e)
    IN IF start_time.exc \/ end_time.exc
       THEN [exc |-> TRUE, ret |-> None]
       ELSE [exc |-> FALSE,
             ret |-> Some([start |-> start_time.val, end |-> end_time.val])]

\* _parse_version_time that does not look at what the resolver returned and
\* starts the window at its end when there is no start
ParseVersionTime_NoCheck(version_match, file, env) ==
    LET end_time == Strptime(version_match.e)
        r == GetVersionStartTime(version_match.v, file, env)
    IN IF end_time.exc
       THEN [exc |-> TRUE, ret |-> None, file |-> file, calls |-> <<>>]
       ELSE [exc |-> FALSE,
             ret |-> Some([start |-> IF r.ret # None THEN r.ret[1]
                                     ELSE end_time.val,
                           end |-> end_time.val]),
             file |-> r.file, calls |-> <<r>>]

\* _parse_version_time: the end is parsed first (a ValueError leaves the
\* method before the resolver is called), then the version is resolved.
ParseVersionTime(version_match, file, env) ==
    LET end_time == Strptime(version_match.e)
        r == GetVersionStartTime(version_match.v, file, env)
    IN IF end_time.exc
       THEN [exc |-> TRUE, ret |-> None, file |-> file, calls |-> <<>>]
       ELSE IF r.ret # None
       THEN [exc |-> FALSE,
             ret |-> Some([start |-> r.ret[1], end |-> end_time.val]),
             file |-> r.file, calls |-> <<r>>]
       ELSE [exc |-> FALSE, ret |-> None, file |-> r.file, calls |-> <<r>>]

\* _extract_event_time
ExtractEventTime(description, file, env) ==
    LET time_match == Search("direct", description)
        version_match == Search("version", description)
    IN IF time_match # None
       THEN LET d == ParseDirectTime(time_match[1])
            IN [exc |-> d.exc, ret |-> d.ret, file |-> file, calls |-> <<>>]
       ELSE IF version_match # None
       THEN ParseVersionTime(version_match[1], file, env)
       ELSE [exc |-> FALSE, ret |-> None, file |-> file, calls |-> <<>>]

\* parse_post_content.  page.ok is FALSE when driver.get or the wait raises;
\* every exception is caught and the method returns None.  stage is how far
\* the method got: "page", "empty", "gate", "time".
ParsePostContent(page, file, env) ==
    LET title == page.title
        description == page.description
        agents == ExtractAgentsTitle(description)
        event_time == ExtractEventTime(description, file, env)
    IN IF ~page.ok
       THEN [ret |-> None, file |-> file, stage |-> "page", calls |-> <<>>]
       ELSE IF description = <<>>
       THEN [ret |-> None, file |-> file, stage |-> "empty", calls |-> <<>>]
       ELSE IF ~IsValidPostContent(description)
       THEN [ret |-> None, file |-> file, stage |-> "gate", calls |-> <<>>]
       ELSE [ret |-> IF event_time.exc \/ event_time.ret = None THEN None
                     ELSE Some([title |-> IF agents # None THEN agents[1]
                                          ELSE title,
                                start_time |-> event_time.ret[1].start,
                                end_time |-> event_time.ret[1].end,
                                description |-> <<>>]),
             file |-> event_time.file, stage |-> "time",
             calls |-> event_time.calls]

----------------------------------------------------------------------------
(* merge_events *)

\* (event['start_time'].isoformat(), event['end_time'].isoformat())
TimeKey(event) == <<Isoformat(event.start_time), Isoformat(event.end_time)>>

\* merge_events that joins the titles without dropping the repeated segments
MergeOne_NoDedup(events_by_time, event) ==
    IF \A i \in DOMAIN events_by_time :
          TimeKey(events_by_time[i]) # TimeKey(event)
    THEN Append(events_by_time, event)
    ELSE [i \in DOMAIN events_by_time |->
            IF TimeKey(events_by_time[i]) = TimeKey(event)
            THEN [events_by_time[i] EXCEPT
                    !.title = Join(Split(events_by_time[i].title)
                                   \o Split(event.title))]
            ELSE events_by_time[i]]

\* One turn of the loop of merge_events on the dict so far, which is kept as
\* the sequence of its values in insertion order.
MergeOne(events_by_time, event) ==
    IF \A i \in DOMAIN events_by_time :
          TimeKey(events_by_time[i]) # TimeKey(event)
    THEN Append(events_by_time, event)
    ELSE [i \in DOMAIN events_by_time |->
            IF TimeKey(events_by_time[i]) = TimeKey(event)
            THEN LET existing_titles == Split(events_by_time[i].title)
                     new_titles == Split(event.title)
                     all_titles == Dedup(existing_titles \o new_titles)
                 IN [events_by_time[i] EXCEPT !.title = Join(all_titles)]
            ELSE events_by_time[i]]

RECURSIVE MergeEvents(_)
\* merge_events(events): the values of the dict it returns, in order.  The
\* values are the dicts of the list itself, so that the new title also shows
\* in the list; main does not read the list after the call, and events stays
\* the list as it was passed.
MergeEvents(evs) ==
    IF evs = <<>> THEN <<>>
    ELSE MergeOne(MergeEvents(SubSeq(evs, 1, Len(evs) - 1)), evs[Len(evs)])

----------------------------------------------------------------------------
(* ICSGenerator.add_event *)

Begins == <<" ", "begins">>
Ends == <<" ", "ends">>

\* add_event that splits at 24 hours already
AddEvent_SplitAt24(event_data) ==
    LET start_time == event_data.start_time
        end_time == event_data.end_time
    IN IF end_time - start_time >= SplitHours
       THEN << [summary |-> event_data.title \o Begins,
                dtstart |-> start_time,
                dtend |-> start_time + MarkerHours,
                description |-> event_data.description],
               [summary |-> event_data.title \o Ends,
                dtstart |-> end_time - MarkerHours,
                dtend |-> end_time,
                description |-> event_data.description] >>
       ELSE << [summary |-> event_data.title,
                dtstart |-> start_time,
                dtend |-> end_time,
                description |-> event_data.description] >>

\* add_event: the entries it adds to the calendar for one event
AddEvent(event_data) ==
    LET start_time == event_data.start_time
        end_time == event_data.end_time
    IN IF end_time - start_time > SplitHours
       THEN << [summary |-> event_data.title \o Begins,
                dtstart |-> start_time,
                dtend |-> start_time + MarkerHours,
                description |-> event_data.description],
               [summary |-> event_data.title \o Ends,
                dtstart |-> end_time - MarkerHours,
                dtend |-> end_time,
                description |-> event_data.description] >>
       ELSE << [summary |-> event_data.title,
                dtstart |-> start_time,
                dtend |-> end_time,
                description |-> event_data.description] >>

RECURSIVE AddEvents(_)
\* main: for event_data in merged_events.values(): add_event(event_data)
AddEvents(ms) ==
    IF ms = <<>> THEN <<>> ELSE AddEvent(Head(ms)) \o AddEvents(Tail(ms))

----------------------------------------------------------------------------
(* The inputs: pages, responses of the search, outcomes of the file calls *)

Tok(k) == [k |-> k, s |-> <<0, 0>>, e |-> <<0, 0>>, v |-> "", q |-> ""]
Engine == Tok("engine")
Agent == Tok("agent")
Text == Tok("text")
Bracket(name, qual) == [Tok("bracket") EXCEPT !.v = name, !.q = qual]
Direct(s, e) == [Tok("direct") EXCEPT !.s = s, !.e = e]
VersionTok(v, e) == [Tok("version") EXCEPT !.v = v, !.e = e]

\* Two dates strptime reads, 34 hours apart, and one it refuses (hour 30)
DateTexts == {<<1, 0>>, <<2, 10>>, <<1, 30>>}
\* post['created_at'] of a search result, as the local datetime
ApiTimes == {20, 58}

DirectTokens == {Direct(s, e) : s \in DateTexts, e \in DateTexts}
VersionTokens == {VersionTok(v, e) : v \in Versions, e \in DateTexts}

\* A body may hold both kinds of window, in either order
BothParts ==
    {<<d, VersionTok("1.5", <<2, 10>>)>> :
        d \in {Direct(<<1, 0>>, <<2, 10>>), Direct(<<1, 30>>, <<2, 10>>)}}
    \cup {<<VersionTok("1.5", <<2, 10>>), Direct(<<1, 0>>, <<2, 10>>)>>}

TimeParts ==
    {<<>>} \cup {<<t>> : t \in DirectTokens \cup VersionTokens} \cup BothParts

GateParts ==
    {<<>>, <<Text>>, <<Engine>>, <<Engine, Agent>>, <<Agent, Engine>>}

BracketParts ==
    {<<Bracket("A", "x")>>, <<Bracket("A", "x"), Bracket("B", "y")>>,
     <<Bracket("A", "x"), Bracket("B", "y"), Bracket("A", "x")>>}

Descriptions ==
    {g \o t : g \in GateParts,
              t \in {<<>>, <<Direct(<<1, 0>>, <<2, 10>>)>>,
                     <<VersionTok("1.5", <<2, 10>>)>>}}
    \cup {<<Agent>> \o t : t \in TimeParts}
    \cup {<<Agent>> \o b \o <<Direct(<<1, 0>>, <<2, 10>>)>> : b \in BracketParts}

PageTitle == <<"T">>

Pages ==
    {[ok |-> TRUE, title |-> PageTitle, description |-> d] : d \in Descriptions}
    \cup {[ok |-> FALSE, title |-> <<>>, description |-> <<>>]}

NoApi == [exc |-> FALSE, retcode |-> 0, list |-> <<>>]

ApiResponses ==
    {[exc |-> TRUE, retcode |-> 0, list |-> <<>>],
     [exc |-> FALSE, retcode |-> 1, list |-> <<>>],
     NoApi}
    \cup {[exc |-> FALSE, retcode |-> 0,
           list |-> <<[subject |-> s, created_at |-> c]>>] :
          s \in Versions, c \in ApiTimes}

SaveOutcomes == {"ok", "open_fail", "write_fail"}

Envs == [readFails : BOOLEAN, api : ApiResponses, save : SaveOutcomes]

NoEnv == [readFails |-> FALSE, api |-> NoApi, save |-> "ok"]

\* The outcomes are met only by a page on which the resolver is called
EnvsFor(page, file) ==
    IF ParsePostContent(page, file, NoEnv).calls # <<>> THEN Envs
    ELSE {NoEnv}

Dicts == UNION {[S -> {Isoformat(t) : t \in ApiTimes}] : S \in SUBSET Versions}

\* VERSION_FILE before the run: not there, unreadable, or what earlier runs
\* saved
InitFiles ==
    {[state |-> "missing", data |-> EmptyDict],
     [state |-> "corrupt", data |-> EmptyDict]}
    \cup {[state |-> "valid", data |-> d] : d \in Dicts}

----------------------------------------------------------------------------
(* main *)

NoLast == [page |-> [ok |-> FALSE, title |-> <<>>, description |-> <<>>],
           ret |-> None, stage |-> "none", calls |-> <<>>]

NoIcs == [saved |-> FALSE, written |-> FALSE]

Init ==
    /\ pc = "start"
    /\ posts = <<>>
    /\ results = <<>>
    /\ events = <<>>
    /\ versionFile \in InitFiles
    /\ populated = [v \in Versions |-> None]
    /\ last = NoLast
    /\ merged = <<>>
    /\ calendar = <<>>
    /\ icsFile = NoIcs

\* main: crawler.get_posts(...), which returns [] on any failure, and the
\* return of main on an empty list (an exception of PostCrawler() ends main
\* in the same way, before any post).  A post is its place in the list.
GetPosts ==
    /\ pc = "start"
    /\ \E n \in 0..MaxPosts :
          /\ posts' = [i \in 1..n |-> i]
          /\ pc' = IF n = 0 THEN "done" ELSE "loop"
    /\ UNCHANGED <<results, events, versionFile, populated, last, merged,
                   calendar, icsFile>>

\* main that drops what it has when a post fails
AppendEvent_Restart(evs, event_data) ==
    IF event_data # None THEN Append(evs, event_data[1]) ELSE <<>>

\* main: if event_data: events.append(event_data)
AppendEvent(evs, event_data) ==
    IF event_data # None THEN Append(evs, event_data[1]) ELSE evs

\* What a call of the resolver did, with the outcomes it met
Observed(r, file, pop, env) ==
    [version |-> r.version, ret |-> r.ret, loaded |-> r.loaded,
     lookup |-> r.lookup, save |-> r.save,
     api |-> IF r.lookup THEN env.api ELSE NoApi,
     outcome |-> IF r.save THEN env.save ELSE "none",
     fileBefore |-> file, populatedBefore |-> pop[r.version]]

Populate(pop, r, env) ==
    IF r.save /\ env.save = "ok" THEN [pop EXCEPT ![r.version] = r.ret]
    ELSE pop

\* main: one turn of the loop over posts
ParsePost ==
    /\ pc = "loop"
    /\ Len(results) < Len(posts)
    /\ \E page \in Pages : \E env \in EnvsFor(page, versionFile) :
          \E r \in {ParsePostContent(page, versionFile, env)} :
             /\ results' = Append(results, [post |-> posts[Len(results) + 1],
                                             ret |-> r.ret])
             /\ events' = AppendEvent(events, r.ret)
             /\ versionFile' = r.file
             /\ populated' = IF r.calls = <<>> THEN populated
                             ELSE Populate(populated, r.calls[1], env)
             /\ last' = [page |-> page, ret |-> r.ret, stage |-> r.stage,
                         calls |-> [i \in DOMAIN r.calls |->
                                      Observed(r.calls[i], versionFile,
                                               populated, env)]]
    /\ pc' = "turn"
    /\ UNCHANGED <<posts, merged, calendar, icsFile>>

\* main: the loop goes to its next turn; event_data and the locals of the
\* call are gone
NextPost ==
    /\ pc = "turn"
    /\ pc' = "loop"
    /\ last' = NoLast
    /\ UNCHANGED <<posts, results, events, versionFile, populated, merged,
                   calendar, icsFile>>

\* main: if not events: return
NoEvents ==
    /\ pc = "loop"
    /\ Len(results) = Len(posts)
    /\ events = <<>>
    /\ pc' = "done"
    /\ UNCHANGED <<posts, results, events, versionFile, populated, last,
                   merged, calendar, icsFile>>

\* main: merge_events, add_event for each merged event, save_ics.  save_ics
\* catches the exception of a write that fails; the file is then not written.
WriteCalendar ==
    /\ pc = "loop"
    /\ Len(results) = Len(posts)
    /\ events # <<>>
    /\ merged' = MergeEvents(events)
    /\ calendar' = AddEvents(merged')
    /\ \E ok \in BOOLEAN : icsFile' = [saved |-> TRUE, written |-> ok]
    /\ pc' = "done"
    /\ UNCHANGED <<posts, results, events, versionFile, populated, last>>

Next == GetPosts \/ ParsePost \/ NextPost \/ NoEvents \/ WriteCalendar

Spec == Init /\ [][Next]_vars

----------------------------------------------------------------------------
(* merge_events on its own: any list of events *)

\* Titles as the pipeline makes them and as a page may carry them: one
\* segment, several, a segment twice, none
MergeTitles ==
    {<<>>, <<"A">>, <<"B">>, <<"A", Delim, "B">>, <<"B", Delim, "A">>,
     <<"A", Delim, "A">>}

\* Windows that share a start, share an end, or share nothing
MergeWindows == {<<24, 58>>, <<24, 34>>, <<20, 58>>}

MergeInputs ==
    {[title |-> t, start_time |-> w[1], end_time |-> w[2],
      description |-> <<>>] : t \in MergeTitles, w \in MergeWindows}

RECURSIVE ListsUpTo(_, _)
ListsUpTo(S, n) ==
    IF n = 0 THEN {<<>>}
    ELSE LET shorter == ListsUpTo(S, n - 1)
         IN shorter \cup {Append(l, x) : l \in shorter, x \in S}

InitMerge ==
    /\ pc = "merge"
    /\ posts = <<>>
    /\ results = <<>>
    /\ events \in ListsUpTo(MergeInputs, MaxMergeEvents)
    /\ versionFile = [state |-> "missing", data |-> EmptyDict]
    /\ populated = [v \in Versions |-> None]
    /\ last = NoLast
    /\ merged = <<>>
    /\ calendar = <<>>
    /\ icsFile = NoIcs

\* merged_events = merge_events(events)
Merge ==
    /\ pc = "merge"
    /\ merged' = MergeEvents(events)
    /\ pc' = "merged"
    /\ UNCHANGED <<posts, results, events, versionFile, populated, last,
                   calendar, icsFile>>

NextMerge == Merge

SpecMerge == InitMerge /\ [][NextMerge]_vars

----------------------------------------------------------------------------
(* add_event on its own: any event *)

BuildInputs ==
    {[title |-> <<"A">>, start_time |-> s, end_time |-> e,
      description |-> <<>>] : s \in 0..MaxBuildHour, e \in 0..MaxBuildHour}

InitBuild ==
    /\ pc = "build"
    /\ posts = <<>>
    /\ results = <<>>
    /\ events = <<>>
    /\ versionFile = [state |-> "missing", data |-> EmptyDict]
    /\ populated = [v \in Versions |-> None]
    /\ last = NoLast
    /\ merged \in {<<e>> : e \in BuildInputs}
    /\ calendar = <<>>
    /\ icsFile = NoIcs

\* ics_generator.add_event(event_data)
Build ==
    /\ pc = "build"
    /\ calendar' = AddEvent(merged[1])
    /\ pc' = "built"
    /\ UNCHANGED <<posts, results, events, versionFile, populated, last,
                   merged, icsFile>>

NextBuild == Build

SpecBuild == InitBuild /\ [][NextBuild]_vars

----------------------------------------------------------------------------
(* Claims about merge_events (SpecMerge) and add_event (SpecBuild) *)

Window(e) == <<e.start_time, e.end_time>>

\* The events of the input with the window w, in input order
SourcesOf(w) == SelectSeq(events, LAMBDA e : Window(e) = w)

RECURSIVE AllSegments(_)
\* The segments of the titles of evs, title after title
AllSegments(evs) ==
    IF evs = <<>> THEN <<>>
    ELSE Split(Head(evs).title) \o AllSegments(Tail(evs))

FirstAt(seq, x) ==
    CHOOSE i \in DOMAIN seq : seq[i] = x /\ \A j \in 1..(i - 1) : seq[j] # x

\* segs holds every element of all once, in the order of first occurrence
FirstOccurrences(segs, all) ==
    /\ \A i, j \in DOMAIN segs : i # j => segs[i] # segs[j]
    /\ {segs[i] : i \in DOMAIN segs} = {all[i] : i \in DOMAIN all}
    /\ \A i, j \in DOMAIN segs :
          i < j => FirstAt(all, segs[i]) < FirstAt(all, segs[j])

OnePerWindow ==
    /\ {Window(merged[i]) : i \in DOMAIN merged}
          = {Window(events[i]) : i \in DOMAIN events}
    /\ \A i, j \in DOMAIN merged :
          i # j => Window(merged[i]) # Window(merged[j])

\* C6 as stated: merge returns one event for each distinct (start, end) of
\* the input, and the title of each is the segments of all the source titles
\* of its window, in order of first occurrence, none of them twice.
C6_Original ==
    pc = "merged" =>
       /\ OnePerWindow
       /\ \A i \in DOMAIN merged :
             FirstOccurrences(Split(merged[i].title),
                              AllSegments(SourcesOf(Window(merged[i]))))

\* C6 amended: merge returns one event for each distinct (start, end) of the
\* input; the event of a window with one source event keeps the title of that
\* event as it is, and the title of a window with two or more source events
\* is the segments of all their titles, in order of first occurrence, none of
\* them twice.
C6_MergeByWindow ==
    pc = "merged" =>
       /\ OnePerWindow
       /\ \A i \in DOMAIN merged :
             LET src == SourcesOf(Window(merged[i]))
             IN IF Len(src) = 1 THEN merged[i].title = src[1].title
                ELSE FirstOccurrences(Split(merged[i].title), AllSegments(src))

\* Titles "A" and "A,B" and "B" of one window merged into "A,B", beside an
\* event of another window
C6_Witness ==
    /\ pc = "merged"
    /\ Len(events) = 3
    /\ Len(merged) = 2
    /\ \E i \in DOMAIN merged :
          /\ Len(SourcesOf(Window(merged[i]))) = 2
          /\ SourcesOf(Window(merged[i]))[1].title = <<"A">>
          /\ SourcesOf(Window(merged[i]))[2].title = <<"A", Delim, "B">>
          /\ merged[i].title = <<"A", Delim, "B">>

\* C7: add_event adds two entries when end - start is more than 24 hours,
\* "<title> begins" over [start, start + 1 hour) and "<title> ends" over
\* [end - 1 hour, end), and otherwise (24 hours exactly included) one entry
\* over [start, end) with the title as it is.
C7_SplitOver24Hours ==
    pc = "built" =>
       LET e == merged[1]
       IN IF e.end_time - e.start_time > 24
          THEN /\ Len(calendar) = 2
               /\ calendar[1].summary = e.title \o Begins
               /\ calendar[1].dtstart = e.start_time
               /\ calendar[1].dtend = e.start_time + 1
               /\ calendar[2].summary = e.title \o Ends
               /\ calendar[2].dtstart = e.end_time - 1
               /\ calendar[2].dtend = e.end_time
          ELSE /\ Len(calendar) = 1
               /\ calendar[1].summary = e.title
               /\ calendar[1].dtstart = e.start_time
               /\ calendar[1].dtend = e.end_time

\* An event of 25 hours, built into its two markers
C7_Witness ==
    /\ pc = "built"
    /\ merged[1].end_time - merged[1].start_time = 25
    /\ Len(calendar) = 2

----------------------------------------------------------------------------
(* Claims about parse_post_content and main (Spec).  last is the call that   *)
(* has just returned when pc = "turn".                                       *)

HasEngine(d) == \E i \in DOMAIN d : d[i] = Engine
HasAgent(d) == \E i \in DOMAIN d : d[i] = Agent
PassesGate(d) == ~HasEngine(d) /\ HasAgent(d)

Firsts(d, kind) ==
    {i \in DOMAIN d : d[i].k = kind /\ \A j \in 1..(i - 1) : d[j].k # kind}

Readable(text) == text[1] >= 1 /\ text[2] <= 23
Hours(text) == text[1] * 24 + text[2]

\* The body was read and passed the gate
Parsed == pc = "turn" /\ last.page.ok /\ PassesGate(last.page.description)

\* The body gives its time in the version-relative encoding only, with an
\* end that can be read; vt is the window
VersionOnly(vt) ==
    /\ Parsed
    /\ Firsts(last.page.description, "direct") = {}
    /\ \E i \in Firsts(last.page.description, "version") :
          last.page.description[i] = vt
    /\ Readable(vt.e)

Emitted == SelectSeq(results, LAMBDA x : x.ret # None)

\* C1: for a body whose time is given only as "N.N version update ~ end",
\* extract returns the event that starts at the timestamp the resolver
\* returns for N.N and ends at the parsed end; when the resolver returns
\* none, extract returns none and no event of the post is emitted.
C1_VersionRelative ==
    \A vt \in VersionTokens :
       VersionOnly(vt) =>
          /\ Len(last.calls) = 1
          /\ last.calls[1].version = vt.v
          /\ IF last.calls[1].ret # None
             THEN /\ last.ret # None
                  /\ last.ret[1].start_time = last.calls[1].ret[1]
                  /\ last.ret[1].end_time = Hours(vt.e)
                  /\ events # <<>>
                  /\ events[Len(events)] = last.ret[1]
                  /\ Len(events) = Len(Emitted)
             ELSE /\ last.ret = None
                  /\ results[Len(results)].ret = None
                  /\ Len(events) = Len(Emitted)

\* A version-only body whose version the search resolved to hour 20, given
\* back as the window from 20 to the parsed end 58
C1_Witness ==
    /\ VersionOnly(VersionTok("1.5", <<2, 10>>))
    /\ last.calls[1].lookup
    /\ last.calls[1].ret = Some(20)
    /\ last.ret # None
    /\ last.ret[1].start_time = 20
    /\ last.ret[1].end_time = 58

\* C2 as stated: every event the pipeline stores has start < end.
C2_Original ==
    \A i \in DOMAIN events : events[i].start_time < events[i].end_time

\* C8: extract returns an event only for a body without the engine keyword
\* and with the agent keyword; a body with the engine keyword, or without the
\* agent keyword, yields none and reaches neither the time extraction nor the
\* resolver.
C8_Gate ==
    (pc = "turn" /\ last.page.ok) =>
       /\ ~PassesGate(last.page.description) =>
             /\ last.ret = None
             /\ last.stage # "time"
             /\ last.calls = <<>>
       /\ last.ret # None => PassesGate(last.page.description)

\* A body with the engine keyword, the agent keyword and a version window,
\* turned down at the gate
C8_Witness ==
    /\ pc = "turn"
    /\ last.page.ok
    /\ last.page.description = <<Engine, Agent, VersionTok("1.5", <<2, 10>>)>>
    /\ last.ret = None
    /\ last.stage = "gate"

InOrder ==
    /\ Len(results) <= Len(posts)
    /\ \A i \in DOMAIN results : results[i].post = posts[i]
    /\ events = [i \in DOMAIN Emitted |-> Emitted[i].ret[1]]
    /\ pc = "done" => Len(results) = Len(posts)

DirectYields(d) ==
    \E i \in Firsts(d, "direct") : Readable(d[i].s) /\ Readable(d[i].e)

VersionGiven(d) ==
    \E i \in Firsts(d, "version") : Readable(d[i].e)

\* C10 as stated: a body that yields a direct window gives that window and
\* the resolver is not called; the version-relative encoding is used whenever
\* the direct one does not succeed; extract returns none only when neither
\* succeeds.
C10_Original ==
    Parsed =>
       LET d == last.page.description
       IN /\ DirectYields(d) =>
                /\ last.ret # None
                /\ \E i \in Firsts(d, "direct") :
                      /\ last.ret[1].start_time = Hours(d[i].s)
                      /\ last.ret[1].end_time = Hours(d[i].e)
                /\ last.calls = <<>>
          /\ (~DirectYields(d) /\ VersionGiven(d)) => Len(last.calls) = 1
          /\ last.ret = None =>
                /\ ~DirectYields(d)
                /\ VersionGiven(d) =>
                      (Len(last.calls) = 1 /\ last.calls[1].ret = None)

----------------------------------------------------------------------------
(* Claims about _get_version_start_time (Spec): the calls of last *)

Calls == IF pc = "turn" THEN {last.calls[i] : i \in DOMAIN last.calls} ELSE {}

\* The search did not give the version: the request raised, it returned no
\* result, or the subject of its result is of another version
SearchFailed(c) ==
    \/ c.api.exc
    \/ c.api.retcode # 0
    \/ c.api.list = <<>>
    \/ c.api.list[1].subject # c.version

\* C3 as stated: once a resolve(v) has saved the timestamp t to the cache,
\* every later resolve(v) returns t, does not call the search and does not
\* write the cache again.
C3_Original ==
    \A c \in Calls :
       c.populatedBefore # None =>
          /\ c.ret = c.populatedBefore
          /\ ~c.lookup
          /\ ~c.save

\* C4 as stated: whatever the outcomes of the read, the search and the
\* write, every entry of the persisted cache is still there, with the same
\* timestamp, after a resolve.
C4_Original ==
    \A c \in Calls :
       \A v \in DOMAIN c.fileBefore.data :
          /\ versionFile.state = "valid"
          /\ v \in DOMAIN versionFile.data
          /\ versionFile.data[v] = c.fileBefore.data[v]

====
